---- MODULE Spec2Model ----
(***************************************************************************)
(* assembleIco of src/src/pages/developers/FaviconGeneratorPage.jsx: the   *)
(* routine that serialises a list of { width, height, data } images into   *)
(* one ICO buffer (6-byte header, one 16-byte directory record per image,  *)
(* then the payloads).                                                     *)
(*                                                                         *)
(* An invocation is a frame: the argument, the locals count, offset,       *)
(* totalSize, buffer/view, pos and the two loop indices, and a program     *)
(* counter.  A byte buffer is a sequence of numbers 0..255; the byte at    *)
(* JavaScript index k is element k+1 of the sequence.  writes is the       *)
(* history of the invocation: the byte indices it has written, in order.   *)
(***************************************************************************)
EXTENDS Integers, Sequences, FiniteSets, TLC

VARIABLES
  frame,  \* frame[s]: the invocation of assembleIco made from call site s
  log,    \* log[s]: what call site s got back, one [images, buffer] per return
  page    \* the state of FaviconGeneratorPage and of the generations it started

vars == <<frame, log, page>>

(***************************************************************************)
(* Bounds of the model.                                                    *)
(***************************************************************************)
MaxEntries == 3   \* longest entry list that is run to completion
MaxDataLen == 2   \* longest payload (img.data.length)
MaxCalls == 2     \* invocations per call site in SpecTwice

\* const sizes = [16, 32, 48, 64];
sizes == <<16, 32, 48, 64>>

(***************************************************************************)
(* DataView: setUint8 / setUint16 / setUint32 store the value modulo the   *)
(* field width, little-endian when the third argument is true, and throw a *)
(* RangeError when the field does not fit in the buffer.  Each Put models  *)
(* one "view.setUintW(pos, v, true); pos += W/8" pair.                     *)
(***************************************************************************)
Throw(f) == [f EXCEPT !.pc = "threw"]

Fits(f, n) == f.pos >= 0 /\ f.pos + n <= Len(f.buffer)

Put8(f, v) ==
  IF f.pc = "threw" THEN f
  ELSE IF ~Fits(f, 1) THEN Throw(f)
  ELSE [f EXCEPT !.buffer[f.pos + 1] = v % 256,
                 !.writes = Append(@, f.pos),
                 !.pos = f.pos + 1]

\* Mutant of Put16: setUint16 without its third argument stores big-endian.
Put16BigEndian(f, v) ==
  IF f.pc = "threw" THEN f
  ELSE IF ~Fits(f, 2) THEN Throw(f)
  ELSE [f EXCEPT !.buffer[f.pos + 1] = (v \div 256) % 256,
                 !.buffer[f.pos + 2] = v % 256,
                 !.writes = @ \o <<f.pos, f.pos + 1>>,
                 !.pos = f.pos + 2]

Put16(f, v) ==
  IF f.pc = "threw" THEN f
  ELSE IF ~Fits(f, 2) THEN Throw(f)
  ELSE [f EXCEPT !.buffer[f.pos + 1] = v % 256,
                 !.buffer[f.pos + 2] = (v \div 256) % 256,
                 !.writes = @ \o <<f.pos, f.pos + 1>>,
                 !.pos = f.pos + 2]

Put32(f, v) ==
  IF f.pc = "threw" THEN f
  ELSE IF ~Fits(f, 4) THEN Throw(f)
  ELSE [f EXCEPT !.buffer[f.pos + 1] = v % 256,
                 !.buffer[f.pos + 2] = (v \div 256) % 256,
                 !.buffer[f.pos + 3] = (v \div 65536) % 256,
                 !.buffer[f.pos + 4] = (v \div 16777216) % 256,
                 !.writes = @ \o <<f.pos, f.pos + 1, f.pos + 2, f.pos + 3>>,
                 !.pos = f.pos + 4]

\* new ArrayBuffer(n): n bytes, all zero
NewArrayBuffer(n) == [k \in 1..n |-> 0]

(***************************************************************************)
(* Lines 13-23: count, offset, totalSize, the buffer and pos.              *)
(***************************************************************************)
\* images.forEach(img => { totalSize += img.data.length; }) over images[lo..hi];
\* the sum is split in halves so that a list of 65536 entries can be summed.
RECURSIVE SumDataLength(_, _, _)
SumDataLength(images, lo, hi) ==
  IF lo > hi THEN 0
  ELSE IF lo = hi THEN Len(images[lo].data)
  ELSE LET mid == (lo + hi) \div 2
       IN  SumDataLength(images, lo, mid) + SumDataLength(images, mid + 1, hi)

\* Mutant of HeaderAndDirectorySize: nothing is reserved for an empty list.
HeaderAndDirectorySizeEmpty(count) == IF count = 0 THEN 0 ELSE 6 + count * 16

\* let offset = 6 + count * 16;
HeaderAndDirectorySize(count) == 6 + count * 16

\* Mutant of TotalSize: one byte of padding is reserved per image.
TotalSizePadded(images) ==
  HeaderAndDirectorySize(Len(images)) + SumDataLength(images, 1, Len(images))
    + Len(images)

\* Mutant of TotalSize: the payload lengths are not added.
TotalSizeNoPayload(images) == HeaderAndDirectorySize(Len(images))

TotalSize(images) ==
  HeaderAndDirectorySize(Len(images)) + SumDataLength(images, 1, Len(images))

IdleFrame ==
  [pc |-> "idle", images |-> <<>>, count |-> 0, offset |-> 0, totalSize |-> 0,
   buffer |-> <<>>, pos |-> 0, idx |-> 0, i |-> 0, writes |-> <<>>]

\* Mutant of Enter: the offset cursor starts at the end of the header (6)
\* instead of the end of the directory.
EnterOffsetAtHeader(f, images) ==
  [pc |-> "header", images |-> images, count |-> Len(images),
   offset |-> 6,
   totalSize |-> TotalSize(images), buffer |-> NewArrayBuffer(TotalSize(images)),
   pos |-> 0, idx |-> 0, i |-> 0, writes |-> <<>>]

\* Mutant of Enter: offset is not re-made by a second invocation, it keeps the
\* value the previous invocation left.
EnterStaleOffset(f, images) ==
  [pc |-> "header", images |-> images, count |-> Len(images),
   offset |-> IF f.pc = "returned" THEN f.offset
              ELSE HeaderAndDirectorySize(Len(images)),
   totalSize |-> TotalSize(images), buffer |-> NewArrayBuffer(TotalSize(images)),
   pos |-> 0, idx |-> 0, i |-> 0, writes |-> <<>>]

\* f is the frame the call site held before (its locals are all re-made).
Enter(f, images) ==
  [pc |-> "header",
   images |-> images,
   count |-> Len(images),
   offset |-> HeaderAndDirectorySize(Len(images)),
   totalSize |-> TotalSize(images),
   buffer |-> NewArrayBuffer(TotalSize(images)),
   pos |-> 0,
   idx |-> 0,
   i |-> 0,
   writes |-> <<>>]

(***************************************************************************)
(* Lines 24-30: the header.                                                *)
(***************************************************************************)
\* Mutant of Header: the count is stored as one byte (setUint8) in the
\* two-byte field.
HeaderCount8(f) ==
  LET a == Put16(f, 0)
      b == Put16(a, 1)
      c == Put8(b, f.count)
      d == Put8(c, 0)
  IN  IF d.pc = "threw" THEN d ELSE [d EXCEPT !.pc = "dir", !.idx = 0]

\* Mutant of Header: the count is written first, at byte 4, and the cursor
\* then goes back for the reserved and type fields.
HeaderCountFirst(f) ==
  LET a == Put16([f EXCEPT !.pos = 4], f.count)
      b == Put16(IF a.pc = "threw" THEN a ELSE [a EXCEPT !.pos = 0], 0)
      c == Put16(b, 1)
  IN  IF c.pc = "threw" THEN c ELSE [c EXCEPT !.pc = "dir", !.idx = 0, !.pos = 6]

\* Mutant of Header: the type field is written as 2 (a cursor file).
HeaderTypeCursor(f) ==
  LET a == Put16(f, 0)
      b == Put16(a, 2)
      c == Put16(b, f.count)
  IN  IF c.pc = "threw" THEN c ELSE [c EXCEPT !.pc = "dir", !.idx = 0]

Header(f) ==
  LET a == Put16(f, 0)          \* Reserved
      b == Put16(a, 1)          \* Type: icon (1)
      c == Put16(b, f.count)    \* Number of images
  IN  IF c.pc = "threw" THEN c ELSE [c EXCEPT !.pc = "dir", !.idx = 0]

(***************************************************************************)
(* Lines 33-46: one iteration of the directory forEach, for images[idx].   *)
(***************************************************************************)
\* Mutant of DimByte: the dimension is passed to setUint8 as it is.
DimByteUnclamped(d) == d

\* const width = img.width >= 256 ? 0 : img.width;  (and the same for height)
DimByte(d) == IF d >= 256 THEN 0 ELSE d

\* Mutant of Visited: the list is walked from its last entry to its first.
VisitedReversed(f) == f.images[f.count - f.idx]

\* the image the idx-th iteration of images.forEach visits
Visited(f) == f.images[f.idx + 1]

\* Mutant of AdvanceOffset: the cursor is not advanced.
AdvanceOffsetStuck(offset, img) == offset

\* offset += img.data.length;
AdvanceOffset(offset, img) == offset + Len(img.data)

\* Mutant of DirEntry: the offset is written before the size.
DirEntrySwapped(f) ==
  LET img == Visited(f)
      a == Put8(f, DimByte(img.width))
      b == Put8(a, DimByte(img.height))
      c == Put8(b, 0)
      d == Put8(c, 0)
      e == Put16(d, 1)
      g == Put16(e, 32)
      h == Put32(g, f.offset)
      k == Put32(h, Len(img.data))
  IN  IF k.pc = "threw" THEN k
      ELSE [k EXCEPT !.offset = AdvanceOffset(f.offset, img), !.idx = f.idx + 1]

\* Mutant of DirEntry: the clamped width and height are stored back into the
\* entry (img.width = img.width >= 256 ? 0 : img.width).
DirEntryClampInPlace(f) ==
  LET img == Visited(f)
      a == Put8(f, DimByte(img.width))
      b == Put8(a, DimByte(img.height))
      c == Put8(b, 0)
      d == Put8(c, 0)
      e == Put16(d, 1)
      g == Put16(e, 32)
      h == Put32(g, Len(img.data))
      k == Put32(h, f.offset)
  IN  IF k.pc = "threw" THEN k
      ELSE [k EXCEPT !.offset = AdvanceOffset(f.offset, img), !.idx = f.idx + 1,
                     !.images[f.idx + 1].width = DimByte(img.width),
                     !.images[f.idx + 1].height = DimByte(img.height)]

\* Mutant of DirEntry: the bits-per-pixel field is the payload's length
\* instead of the fixed 32.
DirEntryBppFromData(f) ==
  LET img == Visited(f)
      a == Put8(f, DimByte(img.width))
      b == Put8(a, DimByte(img.height))
      c == Put8(b, 0)
      d == Put8(c, 0)
      e == Put16(d, 1)
      g == Put16(e, 32 * Len(img.data))
      h == Put32(g, Len(img.data))
      k == Put32(h, f.offset)
  IN  IF k.pc = "threw" THEN k
      ELSE [k EXCEPT !.offset = AdvanceOffset(f.offset, img), !.idx = f.idx + 1]

DirEntry(f) ==
  LET img == Visited(f)
      a == Put8(f, DimByte(img.width))
      b == Put8(a, DimByte(img.height))
      c == Put8(b, 0)                   \* Color count
      d == Put8(c, 0)                   \* Reserved
      e == Put16(d, 1)                  \* Color planes
      g == Put16(e, 32)                 \* Bits per pixel
      h == Put32(g, Len(img.data))      \* Size of the image data
      k == Put32(h, f.offset)           \* Offset of the image data
  IN  IF k.pc = "threw" THEN k
      ELSE [k EXCEPT !.offset = AdvanceOffset(f.offset, img), !.idx = f.idx + 1]

(***************************************************************************)
(* Lines 49-53: the payload forEach and its inner for loop.                *)
(***************************************************************************)
\* Mutant of DataByte: every byte written is img.data[0].
DataByteFirst(f) ==
  LET img == Visited(f)
      a == Put8(f, img.data[1])
  IN  IF a.pc = "threw" THEN a ELSE [a EXCEPT !.i = f.i + 1]

\* Mutant of DataByte: the payload is copied back to front.
DataByteReversed(f) ==
  LET img == Visited(f)
      a == Put8(f, img.data[Len(img.data) - f.i])
  IN  IF a.pc = "threw" THEN a ELSE [a EXCEPT !.i = f.i + 1]

\* Mutant of DataByte: the byte is written at pos + i and pos is not advanced
\* (view.setUint8(pos + i, img.data[i])).
DataByteNoAdvance(f) ==
  LET img == Visited(f)
      a == Put8([f EXCEPT !.pos = f.pos + f.i], img.data[f.i + 1])
  IN  IF a.pc = "threw" THEN a ELSE [a EXCEPT !.i = f.i + 1, !.pos = f.pos]

\* Mutant of DataByte: the inner loop does not increment i
\* (for (let i = 0; i < img.data.length; )).
DataByteNoIncrement(f) ==
  LET img == Visited(f)
  IN  Put8(f, img.data[f.i + 1])

\* view.setUint8(pos++, img.data[i]);  i++
DataByte(f) ==
  LET img == Visited(f)
      a == Put8(f, img.data[f.i + 1])
  IN  IF a.pc = "threw" THEN a ELSE [a EXCEPT !.i = f.i + 1]

(***************************************************************************)
(* Actions: one per step of an invocation.                                 *)
(***************************************************************************)
\* Mutant of Step: pos is one variable shared by every invocation (declared
\* outside the function) instead of a local of each.
StepSharedPos(s, f) ==
  /\ frame' = [t \in DOMAIN frame |->
                 IF t = s THEN f ELSE [frame[t] EXCEPT !.pos = f.pos]]
  /\ UNCHANGED <<log, page>>

\* a step of the invocation of call site s: only its own frame changes
Step(s, f) == frame' = [frame EXCEPT ![s] = f] /\ UNCHANGED <<log, page>>

Call(s, images) ==
  /\ frame[s].pc \in {"idle", "returned"}
  /\ Len(log[s]) < MaxCalls
  /\ Step(s, Enter(frame[s], images))

WriteHeader(s) ==
  /\ frame[s].pc = "header"
  /\ Step(s, Header(frame[s]))

WriteDirEntry(s) ==
  /\ frame[s].pc = "dir"
  /\ frame[s].idx < frame[s].count
  /\ Step(s, DirEntry(frame[s]))

DirLoopEnd(s) ==
  /\ frame[s].pc = "dir"
  /\ frame[s].idx = frame[s].count
  /\ Step(s, [frame[s] EXCEPT !.pc = "data", !.idx = 0, !.i = 0])

WriteDataByte(s) ==
  /\ frame[s].pc = "data"
  /\ frame[s].idx < frame[s].count
  /\ frame[s].i < Len(Visited(frame[s]).data)
  /\ Step(s, DataByte(frame[s]))

NextImage(s) ==
  /\ frame[s].pc = "data"
  /\ frame[s].idx < frame[s].count
  /\ frame[s].i = Len(Visited(frame[s]).data)
  /\ Step(s, [frame[s] EXCEPT !.idx = frame[s].idx + 1, !.i = 0])

\* return buffer;
Return(s) ==
  /\ frame[s].pc = "data"
  /\ frame[s].idx = frame[s].count
  /\ frame' = [frame EXCEPT ![s].pc = "returned"]
  /\ log' = [log EXCEPT ![s] = Append(log[s],
               [images |-> frame[s].images, buffer |-> frame[s].buffer])]
  /\ UNCHANGED page

(***************************************************************************)
(* assembleIco run from its call to its return without interruption, as    *)
(* the JavaScript engine runs it: the frame it ends in.                    *)
(***************************************************************************)
RECURSIVE RunFrame(_)
RunFrame(f) ==
  IF f.pc = "header" THEN RunFrame(Header(f))
  ELSE IF f.pc = "dir" THEN
    IF f.idx < f.count THEN RunFrame(DirEntry(f))
    ELSE RunFrame([f EXCEPT !.pc = "data", !.idx = 0, !.i = 0])
  ELSE IF f.pc = "data" THEN
    IF f.idx < f.count THEN
      IF f.i < Len(Visited(f).data) THEN RunFrame(DataByte(f))
      ELSE RunFrame([f EXCEPT !.idx = f.idx + 1, !.i = 0])
    ELSE [f EXCEPT !.pc = "returned"]
  ELSE f

AssembleIco(images) == RunFrame(Enter(IdleFrame, images))

(***************************************************************************)
(* Inputs.                                                                 *)
(***************************************************************************)
\* Payloads: every run of consecutive byte values (modulo 256) that starts at a
\* seed and has at most MaxDataLen bytes; the bytes of one payload all differ.
Seeds == {0, 1, 254}

Payloads == {[j \in 1..n |-> (b + j - 1) % 256] : b \in Seeds, n \in 0..MaxDataLen}

SizeAt(k) == sizes[((k - 1) % Len(sizes)) + 1]

\* Entry lists as generateIcoFromImage / generateIcoFromEmoji resolve them:
\* entry k is { width: sizes[k], height: sizes[k], data } (lines 81, 120).
EntryLists ==
  UNION {{[k \in 1..n |-> [width |-> SizeAt(k), height |-> SizeAt(k), data |-> d[k]]] :
            d \in [1..n -> Payloads]} : n \in 0..MaxEntries}

Sites == {1}

\* The page as it is mounted: nothing selected, no blob, no generation.
\* A null blob is the empty sequence (an ICO buffer has at least 6 bytes).
\* 0 stands for null and for the empty string, <<>> for a null blob; gens are
\* the generations started so far (calls: how often each called assembleIco),
\* errors the number of console.error calls, saved the last file handed to
\* saveAs with the selection it was saved under;
\* currentFile is the state of the FileLoader the page mounts in image mode.
InitialPage ==
  [mode |-> "image", currentFile |-> 0,
   selectedFile |-> 0, imageUrl |-> 0, icoBlob |-> <<>>,
   emoji |-> 0, emojiIcoBlob |-> <<>>,
   gens |-> <<>>, errors |-> 0, saved |-> <<>>]

Init ==
  /\ frame = [s \in Sites |-> IdleFrame]
  /\ log = [s \in Sites |-> <<>>]
  /\ page = InitialPage

Run(s) ==
  \/ WriteHeader(s)
  \/ WriteDirEntry(s)
  \/ DirLoopEnd(s)
  \/ WriteDataByte(s)
  \/ NextImage(s)
  \/ Return(s)

\* One invocation per call site, on any entry list of the bounds.
Next ==
  \E s \in Sites :
    \/ frame[s].pc = "idle" /\ \E images \in EntryLists : Call(s, images)
    \/ Run(s)

Spec == Init /\ [][Next]_vars

(***************************************************************************)
(* SpecDims: one invocation on lists of one or two entries whose width and *)
(* height are drawn independently from Dims.                               *)
(***************************************************************************)
Dims == {1, 16, 255, 256, 300}

DimEntries == {[width |-> w, height |-> h, data |-> <<255>>] : w, h \in Dims}

DimLists == {<<e>> : e \in DimEntries} \cup {<<d, e>> : d, e \in DimEntries}

NextDims ==
  \E s \in Sites :
    \/ frame[s].pc = "idle" /\ \E images \in DimLists : Call(s, images)
    \/ Run(s)

SpecDims == Init /\ [][NextDims]_vars

(***************************************************************************)
(* SpecCount: one invocation on the lists of Spec and on long lists of     *)
(* entries with an empty payload.  Lists longer than MaxEntries are run    *)
(* through the header only: the directory and payload loops of a list of   *)
(* 65535 entries are beyond the model checker.                             *)
(***************************************************************************)
LongCounts == {255, 256, 257, 65535, 65536}

LongLists ==
  {[k \in 1..n |-> [width |-> 16, height |-> 16, data |-> <<>>]] : n \in LongCounts}

NextCount ==
  \E s \in Sites :
    \/ frame[s].pc = "idle" /\ \E images \in EntryLists \cup LongLists : Call(s, images)
    \/ WriteHeader(s)
    \/ frame[s].count <= MaxEntries /\ WriteDirEntry(s)
    \/ frame[s].count <= MaxEntries /\ DirLoopEnd(s)
    \/ frame[s].count <= MaxEntries /\ WriteDataByte(s)
    \/ frame[s].count <= MaxEntries /\ NextImage(s)
    \/ frame[s].count <= MaxEntries /\ Return(s)

SpecCount == Init /\ [][NextCount]_vars

(***************************************************************************)
(* SpecTwice: a call site that invokes assembleIco up to MaxCalls times,   *)
(* each time on any list of TwiceLists.                                    *)
(***************************************************************************)
TwicePayloads == {<<>>, <<7>>, <<254, 255>>}

TwiceLists ==
  UNION {{[k \in 1..n |-> [width |-> SizeAt(k), height |-> SizeAt(k), data |-> d[k]]] :
            d \in [1..n -> TwicePayloads]} : n \in 0..2}

NextTwice ==
  \E s \in Sites :
    \/ \E images \in TwiceLists : Call(s, images)
    \/ Run(s)

SpecTwice == Init /\ [][NextTwice]_vars

(***************************************************************************)
(* SpecAny: one invocation on lists of up to two entries, square or not,   *)
(* with dimensions below and above 255 and payloads empty or not.          *)
(***************************************************************************)
AnyEntries == [width : {16, 300}, height : {16, 256}, data : Payloads]

AnyLists == {<<>>} \cup {<<e>> : e \in AnyEntries}
              \cup {<<d, e>> : d, e \in AnyEntries}

NextAny ==
  \E s \in Sites :
    \/ frame[s].pc = "idle" /\ \E images \in AnyLists : Call(s, images)
    \/ Run(s)

SpecAny == Init /\ [][NextAny]_vars

(***************************************************************************)
(* SpecScenario: one invocation on a 16 x 16 entry with a 16-byte payload  *)
(* followed by a 32 x 32 entry with a 32-byte payload.                     *)
(***************************************************************************)
\* the n consecutive byte values (modulo 256) from b on
Ramp(b, n) == [j \in 1..n |-> (b + j - 1) % 256]

ScenarioLists ==
  {<<[width |-> 16, height |-> 16, data |-> Ramp(b, 16)],
     [width |-> 32, height |-> 32, data |-> Ramp(c, 32)]>> : b, c \in Seeds}

NextScenario ==
  \E s \in Sites :
    \/ frame[s].pc = "idle" /\ \E images \in ScenarioLists : Call(s, images)
    \/ Run(s)

SpecScenario == Init /\ [][NextScenario]_vars

(***************************************************************************)
(* SpecEndian: one invocation on the lists of TwiceLists, on a list whose  *)
(* first payload has 300 bytes (a size and an offset above 255) and, run   *)
(* through the header only, on a list of 258 entries.                      *)
(***************************************************************************)
EndianLists ==
  TwiceLists
    \cup {<<[width |-> 16, height |-> 16, data |-> Ramp(0, 300)],
            [width |-> 32, height |-> 32, data |-> <<7>>]>>}
    \cup {[k \in 1..258 |-> [width |-> 16, height |-> 16, data |-> <<>>]]}

NextEndian ==
  \E s \in Sites :
    \/ frame[s].pc = "idle" /\ \E images \in EndianLists : Call(s, images)
    \/ WriteHeader(s)
    \/ frame[s].count <= MaxEntries /\ WriteDirEntry(s)
    \/ frame[s].count <= MaxEntries /\ DirLoopEnd(s)
    \/ frame[s].count <= MaxEntries /\ WriteDataByte(s)
    \/ frame[s].count <= MaxEntries /\ NextImage(s)
    \/ frame[s].count <= MaxEntries /\ Return(s)

SpecEndian == Init /\ [][NextEndian]_vars

(***************************************************************************)
(* FaviconGeneratorPage (lines 135-189) with generateIcoFromImage (60-96)  *)
(* and generateIcoFromEmoji (100-133).  A generation is one call of either:*)
(* four promises, one per size, collected by Promise.all.  The canvas      *)
(* encodings complete one at a time, in any order, each as its own event;  *)
(* the then-callbacks that follow the last of them (assembleIco, then      *)
(* setIcoBlob or setEmojiIcoBlob) are microtasks of that same event.       *)
(***************************************************************************)
MaxGens == 2

Files == {1}
Emojis == {1}
TwoFiles == {1, 2}
TwoEmojis == {1, 2}
Modes == {"image", "emoji"}

\* canvas.toBlob + FileReader: the PNG bytes of one source drawn at one size;
\* the bytes tell the source, the kind and the size apart.
PngOf(kind, src, size) == <<IF kind = "image" THEN src ELSE 100 + src, size>>

\* resolve({ width: size, height: size, data: uint8Array })
Encoded(kind, src, k) ==
  [width |-> sizes[k], height |-> sizes[k], data |-> PngOf(kind, src, sizes[k])]

\* the result array of Promise.all before any promise resolved
NoValues == [k \in DOMAIN sizes |-> <<>>]

\* sizes.map(size => new Promise(...)) and Promise.all(promises)
NewGeneration(kind, src) ==
  [kind |-> kind, src |-> src, values |-> NoValues, done |-> {},
   state |-> "pending", last |-> 0, calls |-> 0]

\* Mutant of Collect: results are pushed as they arrive (values.push(value)).
CollectInCompletionOrder(values, k, img) ==
  LET free == CHOOSE j \in DOMAIN values :
                /\ values[j] = <<>>
                /\ \A h \in 1..(j - 1) : values[h] # <<>>
  IN  [values EXCEPT ![free] = <<img>>]

\* Promise.all stores the value of promise k at index k
Collect(values, k, img) == [values EXCEPT ![k] = <<img>>]

Images(values) == [k \in DOMAIN values |-> values[k][1]]

\* setIcoBlob(new Blob([arrayBuffer])) / setEmojiIcoBlob(new Blob([arrayBuffer]))
SetBlob(p, kind, buf) ==
  IF kind = "image" THEN [p EXCEPT !.icoBlob = buf]
                    ELSE [p EXCEPT !.emojiIcoBlob = buf]

\* every list of four images a generation can hand to assembleIco, and
\* assembleIco tabulated on them
ListsOf(kind, srcs) ==
  {[j \in DOMAIN sizes |-> Encoded(kind, src, ks[j])] :
     src \in srcs, ks \in [DOMAIN sizes -> DOMAIN sizes]}

Collectable == ListsOf("image", TwoFiles) \cup ListsOf("emoji", TwoEmojis)

AssembledIco == [images \in Collectable |-> AssembleIco(images)]

\* Mutant of Rejected: the catch handler also resets the blob
\* (.catch(err => { console.error(...); setIcoBlob(null); })).
RejectedClearsBlob(p, g) ==
  LET q == [p EXCEPT !.gens[g].state = "rejected", !.gens[g].values = NoValues,
                     !.gens[g].done = {}, !.errors = p.errors + 1]
  IN  IF p.gens[g].kind = "image" THEN [q EXCEPT !.icoBlob = <<>>]
                                  ELSE [q EXCEPT !.emojiIcoBlob = <<>>]

\* Promise.all rejected, or assembleIco threw: .catch(err => console.error(...))
Rejected(p, g) ==
  [p EXCEPT !.gens[g].state = "rejected", !.gens[g].values = NoValues,
            !.gens[g].done = {}, !.errors = p.errors + 1]

\* last promise resolved: Promise.all(...).then(assembleIco).then(setBlob)
Fulfilled(p, g, k, values) ==
  LET gen == p.gens[g]
      r == AssembledIco[Images(values)]
  IN  IF r.pc = "threw" THEN Rejected([p EXCEPT !.gens[g].calls = @ + 1], g)
      ELSE SetBlob([p EXCEPT !.gens[g].state = "fulfilled",
                             !.gens[g].calls = @ + 1,
                             !.gens[g].values = NoValues,
                             !.gens[g].done = {},
                             !.gens[g].last = k],
                   gen.kind, r.buffer)

\* onClick={() => setMode(m)}: the FileLoader is mounted in image mode only
SetMode(m) ==
  /\ m # page.mode
  /\ page' = [page EXCEPT !.mode = m, !.currentFile = 0]
  /\ UNCHANGED <<frame, log>>

\* FileLoader.handleFile(file) -> setSelectedFile(file) -> effect [selectedFile]
SelectFile(file) ==
  /\ page.mode = "image"
  /\ Len(page.gens) < MaxGens
  /\ page' = [page EXCEPT !.currentFile = file,
                          !.selectedFile = file,
                          !.imageUrl = file,
                          !.gens = Append(@, NewGeneration("image", file))]
  /\ UNCHANGED <<frame, log>>

\* FileLoader.removeFile -> setSelectedFile(null) -> effect [selectedFile]
RemoveFile ==
  /\ page.mode = "image"
  /\ page.currentFile # 0
  /\ page' = [page EXCEPT !.currentFile = 0,
                          !.selectedFile = 0,
                          !.imageUrl = 0,
                          !.icoBlob = <<>>]
  /\ UNCHANGED <<frame, log>>

\* onChange={(e) => setEmoji(e.target.value)} -> effect [emoji], emoji truthy
EditEmoji(e) ==
  /\ page.mode = "emoji"
  /\ e # page.emoji
  /\ Len(page.gens) < MaxGens
  /\ page' = [page EXCEPT !.emoji = e,
                          !.gens = Append(@, NewGeneration("emoji", e))]
  /\ UNCHANGED <<frame, log>>

\* the input is emptied: setEmoji("") -> effect [emoji] -> setEmojiIcoBlob(null)
ClearEmoji ==
  /\ page.mode = "emoji"
  /\ page.emoji # 0
  /\ page' = [page EXCEPT !.emoji = 0, !.emojiIcoBlob = <<>>]
  /\ UNCHANGED <<frame, log>>

\* reader.onload of the encoding of size k of generation g: resolve(...)
EncodingDone(g, k) ==
  /\ page.gens[g].state = "pending"
  /\ k \notin page.gens[g].done
  /\ LET gen == page.gens[g]
         values == Collect(gen.values, k, Encoded(gen.kind, gen.src, k))
         done == gen.done \cup {k}
     IN  page' = IF done = DOMAIN sizes
                   THEN Fulfilled(page, g, k, values)
                   ELSE [page EXCEPT !.gens[g].values = values,
                                     !.gens[g].done = done]
  /\ UNCHANGED <<frame, log>>

\* img.onerror, reader.onerror or a null blob in an encoding of generation g
\* that has not completed: reject(...).  Which encoding it is makes no
\* difference, and what the other encodings of g do afterwards changes nothing.
EncodingFailed(g) ==
  /\ page.gens[g].state = "pending"
  /\ page.gens[g].done # DOMAIN sizes
  /\ page' = Rejected(page, g)
  /\ UNCHANGED <<frame, log>>

NextPage ==
  \/ \E m \in Modes : SetMode(m)
  \/ \E file \in Files : SelectFile(file)
  \/ RemoveFile
  \/ \E e \in Emojis : EditEmoji(e)
  \/ ClearEmoji
  \/ \E g \in DOMAIN page.gens : \E k \in DOMAIN sizes : EncodingDone(g, k)
  \/ \E g \in DOMAIN page.gens : EncodingFailed(g)

SpecPage == Init /\ [][NextPage]_vars

\* downloadIco: if (icoBlob) saveAs(icoBlob, "favicon.ico"); the button is
\* rendered in image mode when icoBlob is not null
DownloadIco ==
  /\ page.mode = "image"
  /\ page.icoBlob # <<>>
  /\ page' = [page EXCEPT !.saved = <<[blob |-> page.icoBlob,
                                       from |-> page.selectedFile]>>]
  /\ page'.saved # page.saved
  /\ UNCHANGED <<frame, log>>

\* downloadEmojiIco: if (emojiIcoBlob) saveAs(emojiIcoBlob, "favicon.ico"); the
\* button is rendered in emoji mode when emoji and emojiIcoBlob are set
DownloadEmojiIco ==
  /\ page.mode = "emoji"
  /\ page.emoji # 0
  /\ page.emojiIcoBlob # <<>>
  /\ page' = [page EXCEPT !.saved = <<[blob |-> page.emojiIcoBlob,
                                       from |-> page.emoji]>>]
  /\ page'.saved # page.saved
  /\ UNCHANGED <<frame, log>>

(***************************************************************************)
(* SpecEmojis: the page used in emoji mode with two emojis to type, and    *)
(* SpecFiles: the page used in image mode with two files to select; both   *)
(* with their download button.                                             *)
(***************************************************************************)
NextEmojis ==
  \/ \E m \in Modes : SetMode(m)
  \/ \E e \in TwoEmojis : EditEmoji(e)
  \/ ClearEmoji
  \/ \E g \in DOMAIN page.gens : \E k \in DOMAIN sizes : EncodingDone(g, k)
  \/ \E g \in DOMAIN page.gens : EncodingFailed(g)
  \/ DownloadEmojiIco

SpecEmojis == Init /\ [][NextEmojis]_vars

NextFiles ==
  \/ \E m \in Modes : SetMode(m)
  \/ \E file \in TwoFiles : SelectFile(file)
  \/ RemoveFile
  \/ \E g \in DOMAIN page.gens : \E k \in DOMAIN sizes : EncodingDone(g, k)
  \/ \E g \in DOMAIN page.gens : EncodingFailed(g)
  \/ DownloadIco

SpecFiles == Init /\ [][NextFiles]_vars

(***************************************************************************)
(* SpecInterleaved: two call sites, one invocation each on any list of     *)
(* TwiceLists, their steps interleaved in every possible way.              *)
(***************************************************************************)
TwoSites == {1, 2}

InitInterleaved ==
  /\ frame = [s \in TwoSites |-> IdleFrame]
  /\ log = [s \in TwoSites |-> <<>>]
  /\ page = InitialPage

NextInterleaved ==
  \E s \in TwoSites :
    \/ frame[s].pc = "idle" /\ \E images \in TwiceLists : Call(s, images)
    \/ Run(s)

SpecInterleaved == InitInterleaved /\ [][NextInterleaved]_vars

(***************************************************************************)
(* Reading a returned buffer back: what an ICO reader decodes.  A byte     *)
(* outside the buffer reads as -1.                                         *)
(***************************************************************************)
ByteAt(buf, k) == IF k + 1 \in DOMAIN buf THEN buf[k + 1] ELSE -1

Uint16At(buf, k) == ByteAt(buf, k) + 256 * ByteAt(buf, k + 1)

Uint32At(buf, k) ==
  ByteAt(buf, k) + 256 * ByteAt(buf, k + 1) + 65536 * ByteAt(buf, k + 2)
    + 16777216 * ByteAt(buf, k + 3)

\* directory record i (counted from 0) starts at byte 6 + 16*i
RecordAt(i) == 6 + 16 * i

DataSizeOf(buf, i) == Uint32At(buf, RecordAt(i) + 8)

DataOffsetOf(buf, i) == Uint32At(buf, RecordAt(i) + 12)

SliceOf(buf, from, n) == [j \in 1..n |-> ByteAt(buf, from + j - 1)]

\* the bytes of the payloads of entries 0..i-1
RECURSIVE PayloadBytesBefore(_, _)
PayloadBytesBefore(images, i) ==
  IF i = 0 THEN 0 ELSE PayloadBytesBefore(images, i - 1) + Len(images[i].data)

RECURSIVE ConcatData(_)
ConcatData(images) ==
  IF images = <<>> THEN <<>> ELSE Head(images).data \o ConcatData(Tail(images))

Returned(s) == frame[s].pc = "returned"

Out(s) == frame[s].buffer

In(s) == frame[s].images

\* the indices 0..N-1 of the entries of call site s
Indices(s) == 0..(Len(In(s)) - 1)

(***************************************************************************)
(* Claims about the returned buffer.                                       *)
(***************************************************************************)

\* C1: round trip: slicing the returned buffer at record i's dataOffset for
\* its dataSize gives back entries[i].data, byte for byte.
C1_RoundTrip ==
  \A s \in DOMAIN frame : Returned(s) =>
    \A i \in Indices(s) :
      SliceOf(Out(s), DataOffsetOf(Out(s), i), DataSizeOf(Out(s), i))
        = In(s)[i + 1].data

\* three entries with non-empty, pairwise different payloads were assembled
C1_Witness ==
  \E s \in DOMAIN frame :
    /\ Returned(s) /\ Len(In(s)) = 3
    /\ \A i \in 1..3 : Len(In(s)[i].data) = 2
    /\ In(s)[1].data # In(s)[2].data /\ In(s)[2].data # In(s)[3].data

\* C2: the returned buffer has exactly 6 + 16*N + (sum of data.length) bytes.
C2_Length ==
  \A s \in DOMAIN frame : Returned(s) =>
    Len(Out(s)) = 6 + 16 * Len(In(s)) + PayloadBytesBefore(In(s), Len(In(s)))

\* a buffer of 6 + 48 + 5 bytes was returned for three entries
C2_Witness ==
  \E s \in DOMAIN frame : Returned(s) /\ Len(In(s)) = 3 /\ Len(Out(s)) = 59

\* C3: record i's dataOffset is 6 + 16*N + (sum of data.length of entries
\* 0..i-1); record 0's is 6 + 16*N.
C3_Offsets ==
  \A s \in DOMAIN frame : Returned(s) =>
    \A i \in Indices(s) :
      DataOffsetOf(Out(s), i) = 6 + 16 * Len(In(s)) + PayloadBytesBefore(In(s), i)

\* three entries, the first two with payloads of 2 and 1 bytes: the third
\* record's offset is 54 + 3
C3_Witness ==
  \E s \in DOMAIN frame :
    /\ Returned(s) /\ Len(In(s)) = 3
    /\ Len(In(s)[1].data) = 2 /\ Len(In(s)[2].data) = 1
    /\ DataOffsetOf(Out(s), 2) = 57

\* C4: record i's dataSize is entries[i].data.length.
C4_Sizes ==
  \A s \in DOMAIN frame : Returned(s) =>
    \A i \in Indices(s) : DataSizeOf(Out(s), i) = Len(In(s)[i + 1].data)

\* payloads of 0, 1 and 2 bytes in one list
C4_Witness ==
  \E s \in DOMAIN frame :
    /\ Returned(s) /\ Len(In(s)) = 3
    /\ Len(In(s)[1].data) = 0 /\ Len(In(s)[2].data) = 1 /\ Len(In(s)[3].data) = 2
    /\ DataSizeOf(Out(s), 2) = 2

\* the byte indices [dataOffset, dataOffset + dataSize) of record i
RangeOf(buf, i) == DataOffsetOf(buf, i)..(DataOffsetOf(buf, i) + DataSizeOf(buf, i) - 1)

\* C5: every record's range lies after the directory and inside the buffer,
\* and the ranges of two distinct records do not overlap.
C5_Ranges ==
  \A s \in DOMAIN frame : Returned(s) =>
    /\ \A i \in Indices(s) :
         /\ DataOffsetOf(Out(s), i) >= 6 + 16 * Len(In(s))
         /\ DataOffsetOf(Out(s), i) + DataSizeOf(Out(s), i) <= Len(Out(s))
    /\ \A i, j \in Indices(s) :
         i # j => RangeOf(Out(s), i) \cap RangeOf(Out(s), j) = {}

\* three entries whose payloads are all non-empty
C5_Witness ==
  \E s \in DOMAIN frame :
    /\ Returned(s) /\ Len(In(s)) = 3
    /\ \A i \in 1..3 : Len(In(s)[i].data) >= 1
    /\ Len(In(s)[1].data) # Len(In(s)[2].data)

\* C6: the bytes from 6 + 16*N to the end are the payloads in input order,
\* with nothing before, between or after them.
C6_Trailing ==
  \A s \in DOMAIN frame : Returned(s) =>
    SubSeq(Out(s), 6 + 16 * Len(In(s)) + 1, Len(Out(s))) = ConcatData(In(s))

\* a non-empty, an empty and a non-empty payload, in that order
C6_Witness ==
  \E s \in DOMAIN frame :
    /\ Returned(s) /\ Len(In(s)) = 3
    /\ Len(In(s)[1].data) = 2 /\ Len(In(s)[2].data) = 0 /\ Len(In(s)[3].data) = 2
    /\ In(s)[1].data # In(s)[3].data

\* the byte a reader expects for a dimension
ExpectedDimByte(d) == IF d >= 256 THEN 0 ELSE d

\* C7: record i describes entry i: its width, height and size fields are
\* those of entries[i], for every i.
C7_Order ==
  \A s \in DOMAIN frame : Returned(s) =>
    \A i \in Indices(s) :
      /\ ByteAt(Out(s), RecordAt(i)) = ExpectedDimByte(In(s)[i + 1].width)
      /\ ByteAt(Out(s), RecordAt(i) + 1) = ExpectedDimByte(In(s)[i + 1].height)
      /\ DataSizeOf(Out(s), i) = Len(In(s)[i + 1].data)

\* three entries of different dimensions and different payload sizes
C7_Witness ==
  \E s \in DOMAIN frame :
    /\ Returned(s) /\ Len(In(s)) = 3
    /\ In(s)[1].width # In(s)[2].width /\ In(s)[2].width # In(s)[3].width
    /\ Len(In(s)[1].data) = 1 /\ Len(In(s)[2].data) = 2 /\ Len(In(s)[3].data) = 0

\* the header has been written
HeaderWritten(s) == frame[s].pc \in {"dir", "data", "returned"}

\* C8: for a list of N <= 65535 entries the 16-bit count field at bytes 4..5
\* is N.
C8_Count ==
  \A s \in DOMAIN frame :
    (HeaderWritten(s) /\ Len(In(s)) <= 65535) => Uint16At(Out(s), 4) = Len(In(s))

\* the header of a list of 257 entries was written: both bytes of the field
\* are non-zero
C8_Witness ==
  \E s \in DOMAIN frame :
    HeaderWritten(s) /\ Len(In(s)) = 257 /\ Uint16At(Out(s), 4) = 257

\* C9: a dimension 1..255 is stored as itself and a dimension >= 256 as 0,
\* the width byte from entry.width and the height byte from entry.height.
C9_Dims ==
  \A s \in DOMAIN frame : Returned(s) =>
    \A i \in Indices(s) :
      LET w == In(s)[i + 1].width
          h == In(s)[i + 1].height
      IN  /\ (1 <= w /\ w <= 255) => ByteAt(Out(s), RecordAt(i)) = w
          /\ w >= 256 => ByteAt(Out(s), RecordAt(i)) = 0
          /\ (1 <= h /\ h <= 255) => ByteAt(Out(s), RecordAt(i) + 1) = h
          /\ h >= 256 => ByteAt(Out(s), RecordAt(i) + 1) = 0

\* an entry 256 wide and 255 high next to one 16 wide and 300 high
C9_Witness ==
  \E s \in DOMAIN frame :
    /\ Returned(s) /\ Len(In(s)) = 2
    /\ In(s)[1].width = 256 /\ In(s)[1].height = 255
    /\ In(s)[2].width = 16 /\ In(s)[2].height = 300
    /\ ByteAt(Out(s), RecordAt(0)) = 0 /\ ByteAt(Out(s), RecordAt(0) + 1) = 255

\* C10: two invocations on equal entry lists return equal buffers.
C10_Deterministic ==
  \A s \in DOMAIN log :
    \A a, b \in 1..Len(log[s]) :
      log[s][a].images = log[s][b].images => log[s][a].buffer = log[s][b].buffer

\* the same list of two entries with payloads was assembled twice
C10_Witness ==
  \E s \in DOMAIN log :
    /\ Len(log[s]) >= 2
    /\ log[s][1].images = log[s][2].images
    /\ Len(log[s][1].images) = 2
    /\ \A k \in 1..2 : Len(log[s][1].images[k].data) >= 1

\* C11: with the steps of two invocations interleaved, neither throws and
\* each returns the buffer it returns when run alone.
C11_Interleaved ==
  \A s \in DOMAIN frame :
    /\ frame[s].pc # "threw"
    /\ Returned(s) => Out(s) = AssembleIco(In(s)).buffer

\* both invocations returned, on different lists of two entries with payloads
C11_Witness ==
  /\ DOMAIN frame = {1, 2}
  /\ Returned(1) /\ Returned(2)
  /\ Len(In(1)) = 2 /\ Len(In(2)) = 2
  /\ In(1)[1].data = <<254, 255>> /\ In(2)[1].data = <<7>>
  /\ In(2)[2].data = <<254, 255>>

\* an invocation is in progress at call site s
Running(s) == frame[s].pc \in {"header", "dir", "data"}

\* C12: no step of an invocation changes its argument: the list keeps its
\* length and order, and every entry its width, height and data.
C12_InputUnchanged ==
  [][\A s \in DOMAIN frame : Running(s) => frame'[s].images = frame[s].images]_vars

\* an invocation returned whose list still holds its 300 x 256 entry
C12_Witness ==
  \E s \in DOMAIN frame :
    /\ Returned(s) /\ Len(In(s)) = 2
    /\ In(s)[1].width = 300 /\ In(s)[1].height = 256
    /\ In(s)[2].width = 1 /\ In(s)[2].data = <<255>>
    /\ log[s][1].images = In(s)

\* C13: no invocation ends in an error, whatever the entries, and the buffer
\* handed back is the whole buffer of totalSize bytes.
C13_NoError ==
  \A s \in DOMAIN frame :
    /\ frame[s].pc # "threw"
    /\ Returned(s) =>
         /\ Len(Out(s)) = frame[s].totalSize
         /\ log[s][Len(log[s])].buffer = Out(s)

\* a buffer was returned for a 300 x 16 entry with an empty payload followed
\* by a 16 x 256 entry with a payload
C13_Witness ==
  \E s \in DOMAIN frame :
    /\ Returned(s) /\ Len(In(s)) = 2
    /\ In(s)[1].width = 300 /\ In(s)[1].height = 16 /\ In(s)[1].data = <<>>
    /\ In(s)[2].width = 16 /\ In(s)[2].height = 256 /\ In(s)[2].data = <<254, 255>>
    /\ Len(Out(s)) = 40

\* C14: for the empty list the invocation does not throw and returns the 6
\* bytes reserved = 0, type = 1, count = 0 and nothing else.
C14_Empty ==
  \A s \in DOMAIN frame :
    (frame[s].pc # "idle" /\ In(s) = <<>>) =>
      /\ frame[s].pc # "threw"
      /\ Returned(s) => Out(s) = <<0, 0, 1, 0, 0, 0>>

\* the invocation on the empty list returned
C14_Witness ==
  \E s \in DOMAIN frame :
    Returned(s) /\ In(s) = <<>> /\ Len(Out(s)) = 6 /\ Uint16At(Out(s), 4) = 0

\* the two-entry input of the scenario
IsScenario(images) ==
  /\ Len(images) = 2
  /\ images[1].width = 16 /\ images[1].height = 16 /\ Len(images[1].data) = 16
  /\ images[2].width = 32 /\ images[2].height = 32 /\ Len(images[2].data) = 32

\* C15: for that input the buffer has 86 bytes, bytes 4..5 decode
\* (little-endian) to 2, record 0's dataOffset is 38 and record 1's is 54.
C15_Scenario ==
  \A s \in DOMAIN frame :
    (Returned(s) /\ IsScenario(In(s))) =>
      /\ Len(Out(s)) = 86
      /\ ByteAt(Out(s), 4) = 2 /\ ByteAt(Out(s), 5) = 0
      /\ DataOffsetOf(Out(s), 0) = 38
      /\ DataOffsetOf(Out(s), 1) = 54

\* the scenario's input was assembled, its second payload at bytes 54..85
C15_Witness ==
  \E s \in DOMAIN frame :
    /\ Returned(s) /\ IsScenario(In(s))
    /\ In(s)[1].data[1] = 1 /\ In(s)[2].data[1] = 254
    /\ ByteAt(Out(s), 54) = 254 /\ ByteAt(Out(s), 85) = 29

RECURSIVE Pow256(_)
Pow256(n) == IF n = 0 THEN 1 ELSE 256 * Pow256(n - 1)

\* the n bytes of v, least significant first
LittleEndian(v, n) == [j \in 1..n |-> (v \div Pow256(j - 1)) % 256]

\* C16: every multi-byte field is stored least significant byte first: the
\* header's reserved, type and count, and each record's colour planes, bits
\* per pixel, dataSize and dataOffset.
C16_LittleEndian ==
  \A s \in DOMAIN frame :
    /\ (HeaderWritten(s) /\ Len(In(s)) <= 65535) =>
         /\ SliceOf(Out(s), 0, 2) = LittleEndian(0, 2)
         /\ SliceOf(Out(s), 2, 2) = LittleEndian(1, 2)
         /\ SliceOf(Out(s), 4, 2) = LittleEndian(Len(In(s)), 2)
    /\ Returned(s) =>
         \A i \in Indices(s) :
           /\ SliceOf(Out(s), RecordAt(i) + 4, 2) = LittleEndian(1, 2)
           /\ SliceOf(Out(s), RecordAt(i) + 6, 2) = LittleEndian(32, 2)
           /\ SliceOf(Out(s), RecordAt(i) + 8, 4)
                = LittleEndian(Len(In(s)[i + 1].data), 4)
           /\ SliceOf(Out(s), RecordAt(i) + 12, 4)
                = LittleEndian(6 + 16 * Len(In(s)) + PayloadBytesBefore(In(s), i), 4)

\* the header of a list of 258 entries was written: bytes 4..5 are 2, 1
C16_Witness ==
  \E s \in DOMAIN frame :
    /\ HeaderWritten(s) /\ Len(In(s)) = 258
    /\ ByteAt(Out(s), 4) = 2 /\ ByteAt(Out(s), 5) = 1

\* C17: in every output the header's reserved field (bytes 0..1) is 0 and
\* its type field (bytes 2..3) is 1, whatever the entries are.
C17_HeaderFixed ==
  \A s \in DOMAIN frame :
    HeaderWritten(s) =>
      /\ Uint16At(Out(s), 0) = 0
      /\ Uint16At(Out(s), 2) = 1

\* an output for three entries was returned with reserved 0 and type 1
C17_Witness ==
  \E s \in DOMAIN frame :
    /\ Returned(s) /\ Len(In(s)) = 3
    /\ SliceOf(Out(s), 0, 4) = <<0, 0, 1, 0>>

\* C18: in every directory record of every output the colour-count byte (+2)
\* and the reserved byte (+3) are 0, the colour-planes field (+4) is 1 and the
\* bits-per-pixel field (+6) is 32, whatever the entry's width, height and
\* payload are.
C18_RecordFixed ==
  \A s \in DOMAIN frame :
    Returned(s) =>
      \A i \in Indices(s) :
        /\ ByteAt(Out(s), RecordAt(i) + 2) = 0
        /\ ByteAt(Out(s), RecordAt(i) + 3) = 0
        /\ Uint16At(Out(s), RecordAt(i) + 4) = 1
        /\ Uint16At(Out(s), RecordAt(i) + 6) = 32

\* an output was returned whose entries differ in width, height and payload
\* length and whose records all carry 0, 0, 1, 32
C18_Witness ==
  \E s \in DOMAIN frame :
    /\ Returned(s) /\ Len(In(s)) = 2
    /\ In(s)[1].width # In(s)[2].width
    /\ In(s)[1].height # In(s)[2].height
    /\ Len(In(s)[1].data) # Len(In(s)[2].data)
    /\ \A i \in Indices(s) :
         SliceOf(Out(s), RecordAt(i) + 2, 6) = <<0, 0, 1, 0, 32, 0>>

\* C20: the write cursor pos is 6 after the header and 6 + 16 * idx after
\* idx directory records (6 + 16 * N after the last); when the first byte of
\* entry idx's payload is about to be written pos is the dataOffset recorded
\* in record idx, and it runs i bytes ahead of it within the payload; at the
\* return pos is the buffer's length.
C20_Cursor ==
  \A s \in DOMAIN frame :
    LET f == frame[s] IN
      /\ f.pc = "dir" => f.pos = 6 + 16 * f.idx
      /\ (f.pc = "data" /\ f.idx = 0 /\ f.i = 0) => f.pos = 6 + 16 * f.count
      /\ (f.pc = "data" /\ f.idx < f.count) =>
           f.pos = DataOffsetOf(f.buffer, f.idx) + f.i
      /\ f.pc = "returned" => f.pos = Len(f.buffer)

\* the first byte of the second entry's payload is about to be written, after
\* a first payload that was not empty, at the offset of record 1
C20_Witness ==
  \E s \in DOMAIN frame :
    LET f == frame[s] IN
      /\ f.pc = "data" /\ f.idx = 1 /\ f.i = 0 /\ f.count >= 2
      /\ Len(f.images[1].data) > 0 /\ Len(f.images[2].data) > 0
      /\ f.pos = DataOffsetOf(f.buffer, 1)
      /\ f.pos > 6 + 16 * f.count

\* the blobs the page holds
Blobs == {b \in {page.icoBlob, page.emojiIcoBlob} : b # <<>>}

\* C19: whenever the page holds an ICO blob (icoBlob or emojiIcoBlob is not
\* null) that ICO has exactly four directory records, of width and height 16,
\* 32, 48 and 64 in that order, whatever the order in which the four
\* encodings completed.
C19_FourSizes ==
  \A b \in Blobs :
    /\ Uint16At(b, 4) = 4
    /\ DataOffsetOf(b, 0) = RecordAt(4)
    /\ \A i \in 0..3 :
         /\ ByteAt(b, RecordAt(i)) = sizes[i + 1]
         /\ ByteAt(b, RecordAt(i) + 1) = sizes[i + 1]

\* the page holds the blob of an image generation whose 16-pixel encoding
\* completed last, with records 16, 32, 48, 64
C19_Witness ==
  /\ page.icoBlob # <<>>
  /\ \E g \in DOMAIN page.gens :
       /\ page.gens[g].kind = "image"
       /\ page.gens[g].state = "fulfilled"
       /\ page.gens[g].last = 1
       /\ \A h \in DOMAIN page.gens : h # g => page.gens[h].state # "fulfilled"
  /\ [i \in 1..4 |-> ByteAt(page.icoBlob, RecordAt(i - 1))] = <<16, 32, 48, 64>>

\* C21: the buffer is filled in a single forward pass: the indices written
\* increase strictly (the position never goes back and no index is written
\* twice), every one is below totalSize and no write fails, the header's six
\* bytes are written before any directory record and all records before any
\* payload byte, and at the return every index of 0..totalSize-1 is written.
C21_ForwardPass ==
  \A s \in DOMAIN frame :
    LET f == frame[s]
        w == f.writes
    IN  /\ f.pc # "threw"
        /\ \A j \in 1..(Len(w) - 1) : w[j] < w[j + 1]
        /\ \A j \in 1..Len(w) : w[j] \in 0..(f.totalSize - 1)
        /\ f.pc = "header" => w = <<>>
        /\ f.pc = "dir" => Len(w) = 6 + 16 * f.idx /\ (Len(w) > 0 => w[Len(w)] < 6 + 16 * f.count)
        /\ f.pc = "data" => Len(w) >= 6 + 16 * f.count /\ w[6 + 16 * f.count] = 6 + 16 * f.count - 1
        /\ f.pc = "returned" => {w[j] : j \in 1..Len(w)} = 0..(f.totalSize - 1)

\* an invocation on two entries with payloads returned after writing each
\* index of its buffer once, in ascending order
C21_Witness ==
  \E s \in DOMAIN frame :
    /\ Returned(s) /\ Len(In(s)) = 2
    /\ Len(In(s)[1].data) > 0 /\ Len(In(s)[2].data) > 0
    /\ frame[s].writes = [j \in 1..frame[s].totalSize |-> j - 1]

\* the steps an invocation has left before it has returned: the header, the
\* records not yet written and the end of the directory loop, the payload
\* bytes not yet copied and the ends of the inner loops, and the return
Remaining(f) ==
  LET bytes == PayloadBytesBefore(f.images, f.count)
      tail == bytes + f.count + 1
  IN  IF f.pc = "header" THEN 1 + f.count + 1 + tail
      ELSE IF f.pc = "dir" THEN (f.count - f.idx) + 1 + tail
      ELSE IF f.pc = "data"
        THEN (bytes - PayloadBytesBefore(f.images, f.idx) - f.i) + (f.count - f.idx) + 1
      ELSE 0

\* the statement a running invocation is at can be executed
CanStep(f) ==
  \/ f.pc = "header"
  \/ f.pc = "dir" /\ f.idx <= f.count
  \/ f.pc = "data" /\ f.idx = f.count
  \/ f.pc = "data" /\ f.idx < f.count /\ f.i <= Len(Visited(f).data)

\* C23: every invocation terminates: a running invocation can always execute
\* its next statement, no statement throws, and each statement executed
\* leaves one step less before the return, of finitely many
\* (3 + 2 * N + the payload bytes from the call on).
C23_Terminates ==
  /\ [](\A s \in DOMAIN frame :
          /\ frame[s].pc # "threw"
          /\ Running(s) => CanStep(frame[s]) /\ Remaining(frame[s]) > 0)
  /\ [][\A s \in DOMAIN frame :
          (Running(s) /\ frame'[s] # frame[s]) =>
             Remaining(frame'[s]) = Remaining(frame[s]) - 1]_vars

\* an invocation on a longest list with longest payloads has returned
C23_Witness ==
  \E s \in DOMAIN frame :
    /\ Returned(s) /\ Len(In(s)) = MaxEntries
    /\ \A k \in 1..MaxEntries : Len(In(s)[k].data) = MaxDataLen
    /\ Len(Out(s)) = 6 + 16 * MaxEntries + MaxEntries * MaxDataLen
    /\ Remaining(frame[s]) = 0

\* C24: a generation calls assembleIco at most once, and only in the step in
\* which the last of its four encodings resolves; a generation one of whose
\* encodings failed never calls it, and the step in which it fails logs one
\* error and leaves icoBlob and emojiIcoBlob as they were.
C24_OnceAfterAll ==
  /\ [](\A g \in DOMAIN page.gens :
          /\ page.gens[g].calls <= 1
          /\ page.gens[g].state \in {"pending", "rejected"} => page.gens[g].calls = 0
          /\ page.gens[g].state = "fulfilled" => page.gens[g].calls = 1)
  /\ [][\A g \in DOMAIN page.gens :
          /\ page'.gens[g].calls # page.gens[g].calls =>
               /\ Cardinality(page.gens[g].done) = Len(sizes) - 1
               /\ \A k \in page.gens[g].done : page.gens[g].values[k] # <<>>
          /\ (page.gens[g].state = "pending" /\ page'.gens[g].state = "rejected") =>
               /\ page'.errors = page.errors + 1
               /\ page'.icoBlob = page.icoBlob
               /\ page'.emojiIcoBlob = page.emojiIcoBlob]_vars

\* a generation failed, was logged and never called assembleIco, and the
\* page still holds the blob of the generation before it, which called it once
C24_Witness ==
  /\ Len(page.gens) = 2
  /\ page.gens[1].kind = "image" /\ page.gens[1].state = "fulfilled"
  /\ page.gens[1].calls = 1
  /\ page.gens[2].kind = "image" /\ page.gens[2].state = "rejected"
  /\ page.gens[2].calls = 0
  /\ page.errors = 1
  /\ page.icoBlob # <<>>

\* the ICO of one source: its four encodings, in the order of sizes, assembled
IcoOf(kind, src) ==
  AssembledIco[[k \in DOMAIN sizes |-> Encoded(kind, src, k)]].buffer

Settled == \A g \in DOMAIN page.gens : page.gens[g].state = "fulfilled"

\* C25: once every generation started has settled (here: has succeeded),
\* emojiIcoBlob is the ICO generated from the current emoji, and null when
\* the field is empty; and a generation started for an earlier value does not
\* replace the result of a later one.
C25_LatestEmoji ==
  /\ [](Settled =>
          page.emojiIcoBlob =
            IF page.emoji = 0 THEN <<>> ELSE IcoOf("emoji", page.emoji))
  /\ [][\A g \in DOMAIN page.gens : \A h \in DOMAIN page.gens :
          (/\ g < h
           /\ page.gens[h].state = "fulfilled"
           /\ page.gens[g].state = "pending"
           /\ page'.gens[g].state = "fulfilled")
          => page'.emojiIcoBlob = page.emojiIcoBlob]_vars

\* C26: whenever icoBlob is not null it is the ICO generated from the file
\* selected now, and what downloadIco saved was the ICO of the file selected
\* when it was saved.
C26_CurrentFile ==
  /\ page.icoBlob # <<>> =>
       /\ page.selectedFile # 0
       /\ page.icoBlob = IcoOf("image", page.selectedFile)
  /\ page.saved # <<>> =>
       /\ page.saved[1].from # 0
       /\ page.saved[1].blob = IcoOf("image", page.saved[1].from)

====
